---- MODULE Spec2Model ----
(***************************************************************************)
(* A model of MCPClient (src/MCPClient.ts): the configuration, the session *)
(* registry (sessions map + active list), the tool index and the           *)
(* operations on them.  An async method is cut at each `await`: the step   *)
(* that runs up to the await, and the step that resumes after the awaited  *)
(* promise settled.  Synchronous methods are one step.                     *)
(***************************************************************************)
EXTENDS Integers, Sequences, FiniteSets, TLC

VARIABLES
    config,          \* this.config: [hasServers, servers]; servers in Object.keys order
    sessions,        \* this.sessions: Map in insertion order, entries [name, sid]
    activeSessions,  \* this.activeSessions: array of server names
    toolServerMap,   \* this.toolServerMap: tool name -> server name (or NoServer)
    maxToolTimeout,  \* this.maxToolTimeout
    ctorTimeout,     \* the maxToolTimeout argument the constructor was given
    catalog,         \* the tool catalog each remote server reports
    task,            \* the calls in progress: per caller, the position and locals
    recordCalls      \* whether a caller's last call (result, requests) stays in task

vars == <<config, sessions, activeSessions, toolServerMap, maxToolTimeout,
          ctorTimeout, catalog, task, recordCalls>>

----------------------------------------------------------------------------
(* Values *)

Names == {"a", "b"}

Undefined == "undefined"
NoServer == "undefined"

\* The callers: SeqTasks is the single flow of control of non-overlapping
\* calls, Tasks the callers whose calls may overlap at the awaits.
Tasks == {"t1", "t2"}
SeqTasks == {"t1"}

\* Session ids stand for the identity of the SDK client objects.
MaxSessions == 6
SessionIds == 1..MaxSessions

DefaultToolTimeout == 10000

\* Constructor arguments for maxToolTimeout; NoTimeoutArg: argument omitted.
NoTimeoutArg == -1
TimeoutArgs == {NoTimeoutArg, 0, 5000}

\* How long the remote server takes to answer a tool call (ms).
Latencies == {100, 7000, 20000}

\* MCPServerConfig.  command, args: whether the field is truthy; url, ws_url:
\* absent, a well-formed URL or a string `new URL` rejects.
MCPServerConfig ==
    [type : {Undefined, "stdio", "sse", "streamable-http"},
     command : BOOLEAN, args : BOOLEAN,
     url : {"absent", "valid", "malformed"},
     ws_url : {"absent", "valid", "malformed"}]

StdioCfg == [type |-> Undefined, command |-> TRUE, args |-> TRUE,
             url |-> "absent", ws_url |-> "absent"]
SseCfg == [type |-> "sse", command |-> FALSE, args |-> FALSE,
           url |-> "valid", ws_url |-> "absent"]
UrlOnlyCfg == [type |-> Undefined, command |-> FALSE, args |-> FALSE,
               url |-> "valid", ws_url |-> "absent"]

\* The descriptors addServer is called with in the registry specifications.
Descriptors == {StdioCfg, UrlOnlyCfg}

Tool(n, d) == [name |-> n, description |-> d, inputSchema |-> "schema_" \o n]

\* What the remote servers report: disjoint catalogs, or a shared tool x.
Catalogs ==
    { [a |-> <<Tool("fetch", "Fetches a URL")>>,
       b |-> <<Tool("read_file", Undefined)>>],
      [a |-> <<Tool("fetch", "Fetches a URL"), Tool("x", Undefined)>>,
       b |-> <<Tool("x", "x of b"), Tool("read_file", Undefined)>>] }

ToolNames == {"fetch", "read_file", "x", "unknown_tool"}

----------------------------------------------------------------------------
(* Helpers over Map / array / object values *)

Range(s) == {s[i] : i \in 1..Len(s)}

RECURSIVE SelectNot(_, _)
\* s without the entries named n, order kept (Map.delete, `delete obj[n]`)
SelectNot(s, n) ==
    IF s = <<>> THEN <<>>
    ELSE IF Head(s).name = n THEN SelectNot(Tail(s), n)
    ELSE <<Head(s)>> \o SelectNot(Tail(s), n)

\* Map.prototype.keys / Object.keys
Keys(s) == [i \in 1..Len(s) |-> s[i].name]

Has(s, n) == \E i \in 1..Len(s) : s[i].name = n

\* Map.prototype.get: the entry named n (Has(s, n) assumed)
Get(s, n) == s[CHOOSE i \in 1..Len(s) : s[i].name = n]

\* Map.prototype.set / obj[n] = v: an existing key keeps its place
Put(s, n, e) ==
    IF Has(s, n) THEN [i \in 1..Len(s) |-> IF s[i].name = n THEN e ELSE s[i]]
    ELSE Append(s, e)

\* Array.prototype.indexOf (0 for -1)
IndexOf(arr, n) ==
    IF \E i \in 1..Len(arr) : arr[i] = n
    THEN CHOOSE i \in 1..Len(arr) : arr[i] = n /\ \A j \in 1..(i - 1) : arr[j] # n
    ELSE 0

\* Array.prototype.splice(idx, 1)
Splice(arr, idx) == [i \in 1..(Len(arr) - 1) |-> IF i < idx THEN arr[i] ELSE arr[i + 1]]

\* const idx = arr.indexOf(n); if (idx !== -1) arr.splice(idx, 1)
RemoveFirst(arr, n) == IF IndexOf(arr, n) = 0 THEN arr ELSE Splice(arr, IndexOf(arr, n))

----------------------------------------------------------------------------
(* Task records *)

NoRet == [ok |-> TRUE, err |-> "", val |-> <<>>]
Ok(v) == [ok |-> TRUE, err |-> "", val |-> v]
Err(e) == [ok |-> FALSE, err |-> e, val |-> <<>>]

\* op/arg: the method called and its argument; ret: how the last call ended;
\* names, pos, cur, client, acc: the locals alive across an await;
\* io: the requests this call made to the SDK (connect, close, listTools,
\* callTool), each with the session it was made on and its outcome.
IdleTask == [pc |-> "idle", op |-> "none", arg |-> "", ret |-> NoRet,
             names |-> <<>>, pos |-> 0, cur |-> "", client |-> 0,
             acc |-> <<>>, io |-> <<>>]

Io(call, server, sid, extra) ==
    [call |-> call, server |-> server, sid |-> sid, extra |-> extra,
     res |-> "pending", ms |-> 0]

\* The io log with one more request (the log is kept when calls are recorded).
Log(io, e) == IF recordCalls THEN Append(io, e) ELSE io

\* The io log with the outcome of its last (pending) request filled in.
Settle(io, res) == IF io = <<>> THEN io ELSE [io EXCEPT ![Len(io)].res = res]
SettleAfter(io, res, ms) ==
    IF io = <<>> THEN io ELSE [io EXCEPT ![Len(io)].res = res, ![Len(io)].ms = ms]

Begin(op, arg) == [IdleTask EXCEPT !.op = op, !.arg = arg]

\* The call returns or throws: locals die; what the caller saw of the call
\* (its result and the log of its requests) is kept when calls are recorded.
Finish(tk, ret) ==
    IF recordCalls
    THEN [IdleTask EXCEPT !.op = tk.op, !.arg = tk.arg, !.ret = ret, !.io = tk.io]
    ELSE IdleTask

\* Ids of the client objects the registry or a call in progress refers to.
UsedIds ==
    {sessions[i].sid : i \in 1..Len(sessions)}
    \cup {task[t].client : t \in {u \in Tasks : task[u].pc # "idle"}}

\* new MCPClientSDK(...): an object distinct from every object in use.
NewClient == CHOOSE s \in SessionIds : s \notin UsedIds /\ \A r \in SessionIds : r < s => r \in UsedIds

CanCreate == \E s \in SessionIds : s \notin UsedIds

----------------------------------------------------------------------------
(* The constructor *)

\* if (maxToolTimeout) this.maxToolTimeout = maxToolTimeout
CtorTimeout(arg) == IF arg # NoTimeoutArg /\ arg # 0 THEN arg ELSE DefaultToolTimeout

NoConfig == [hasServers |-> FALSE, servers |-> <<>>]

InitWith(timeouts) ==
    /\ config = NoConfig
    /\ sessions = <<>>
    /\ activeSessions = <<>>
    /\ toolServerMap = [n \in ToolNames |-> NoServer]
    /\ ctorTimeout \in timeouts
    /\ maxToolTimeout = CtorTimeout(ctorTimeout)
    /\ catalog \in Catalogs
    /\ task = [t \in Tasks |-> IdleTask]
    /\ recordCalls = TRUE

----------------------------------------------------------------------------
(* Transport Selector *)

Transport(kind) == [ok |-> TRUE, kind |-> kind, err |-> ""]
NoTransport(e) == [ok |-> FALSE, kind |-> "", err |-> e]

\* new URL(u)
NewURL(u, kind) == IF u = "valid" THEN Transport(kind) ELSE NoTransport("InvalidURL")

\* createTransport testing the url before command and args
createTransportUrlFirst(cfg) ==
    IF cfg.url # "absent" /\ cfg.type = "sse" THEN NewURL(cfg.url, "sse")
    ELSE IF cfg.url # "absent" /\ cfg.type = "streamable-http"
         THEN NewURL(cfg.url, "streamable-http")
    ELSE IF cfg.command /\ cfg.args THEN Transport("stdio")
    ELSE IF cfg.ws_url # "absent" THEN NewURL(cfg.ws_url, "websocket")
    ELSE NoTransport("CannotDetermineTransport")

createTransport(cfg) ==
    IF cfg.command /\ cfg.args THEN Transport("stdio")
    ELSE IF cfg.url # "absent" /\ cfg.type = "sse" THEN NewURL(cfg.url, "sse")
    ELSE IF cfg.url # "absent" /\ cfg.type = "streamable-http"
         THEN NewURL(cfg.url, "streamable-http")
    ELSE IF cfg.ws_url # "absent" THEN NewURL(cfg.ws_url, "websocket")
    ELSE NoTransport("CannotDetermineTransport")

----------------------------------------------------------------------------
(* Configuration *)

getServerNames == IF config.hasServers THEN Keys(config.servers) ELSE <<>>

addServer(t, name, serverConfig) ==
    /\ task[t].pc = "idle"
    /\ config' = [hasServers |-> TRUE,
                  servers |-> Put(config.servers, name, [name |-> name, cfg |-> serverConfig])]
    /\ task' = [task EXCEPT ![t] = Finish(Begin("addServer", name), Ok(<<>>))]
    /\ UNCHANGED <<sessions, activeSessions, toolServerMap, maxToolTimeout, ctorTimeout, catalog, recordCalls>>

\* removeServer without the eviction from the active list
removeServerKeepsActive(t, name) ==
    /\ task[t].pc = "idle"
    /\ config' = [config EXCEPT !.servers = SelectNot(config.servers, name)]
    /\ task' = [task EXCEPT ![t] = Finish(Begin("removeServer", name), Ok(<<>>))]
    /\ UNCHANGED <<sessions, activeSessions, toolServerMap, maxToolTimeout, ctorTimeout,
                   catalog, recordCalls>>

\* removeServer also dropping the stored session of the removed server
removeServerDropsSession(t, name) ==
    /\ task[t].pc = "idle"
    /\ config' = [config EXCEPT !.servers = SelectNot(config.servers, name)]
    /\ activeSessions' = RemoveFirst(activeSessions, name)
    /\ sessions' = SelectNot(sessions, name)
    /\ task' = [task EXCEPT ![t] = Finish(Begin("removeServer", name), Ok(<<>>))]
    /\ UNCHANGED <<toolServerMap, maxToolTimeout, ctorTimeout, catalog, recordCalls>>

removeServer(t, name) ==
    /\ task[t].pc = "idle"
    /\ config' = [config EXCEPT !.servers = SelectNot(config.servers, name)]
    /\ activeSessions' = RemoveFirst(activeSessions, name)
    /\ task' = [task EXCEPT ![t] = Finish(Begin("removeServer", name), Ok(<<>>))]
    /\ UNCHANGED <<sessions, toolServerMap, maxToolTimeout, ctorTimeout, catalog, recordCalls>>

----------------------------------------------------------------------------
(* Lookups *)

\* getSession(serverName): the client, or the error thrown
getSession(serverName) ==
    IF Has(sessions, serverName) THEN Ok(Get(sessions, serverName).sid)
    ELSE Err("NoSessionExists")

RECURSIVE ActiveEntries(_)
ActiveEntries(arr) ==
    IF arr = <<>> THEN <<>>
    ELSE LET rest == ActiveEntries(Tail(arr))
         IN IF Has(sessions, Head(arr))
            THEN Put(rest, Head(arr), Get(sessions, Head(arr))) ELSE rest

\* getAllActiveSessions(): a new Map name -> client
getAllActiveSessions == ActiveEntries(activeSessions)

----------------------------------------------------------------------------
(* createSession *)

\* createSession(serverName) up to `await client.connect(transport)`:
\* the task waiting for the connection, or the task that threw.
StartCreate(tk, serverName) ==
    IF ~config.hasServers \/ config.servers = <<>>
    THEN Finish(tk, Err("NoServersDefined"))
    ELSE IF ~Has(config.servers, serverName)
    THEN Finish(tk, Err("ServerNotFound"))
    ELSE LET tr == createTransport(Get(config.servers, serverName).cfg)
         IN IF ~tr.ok THEN Finish(tk, Err(tr.err))
            ELSE [tk EXCEPT !.pc = "connect", !.cur = serverName, !.client = NewClient,
                            !.io = Log(tk.io, Io("connect", serverName, NewClient, tr.kind))]

createSession(t, serverName) ==
    /\ task[t].pc = "idle"
    /\ CanCreate
    /\ task' = [task EXCEPT ![t] = StartCreate(Begin("createSession", serverName), serverName)]
    /\ UNCHANGED <<config, sessions, activeSessions, toolServerMap, maxToolTimeout,
                   ctorTimeout, catalog, recordCalls>>

\* Register pushing the name whether or not the list includes it
RegisterAlwaysPushes(serverName, client) ==
    /\ sessions' = Put(sessions, serverName, [name |-> serverName, sid |-> client])
    /\ activeSessions' = Append(activeSessions, serverName)

\* this.sessions.set(serverName, client); push unless included
Register(serverName, client) ==
    /\ sessions' = Put(sessions, serverName, [name |-> serverName, sid |-> client])
    /\ activeSessions' = IF serverName \in Range(activeSessions) THEN activeSessions
                         ELSE Append(activeSessions, serverName)

\* client.connect resolved: createSession registers the client and returns it.
\* Inside createAllSessions the loop resumes one tick later (pc "loop").
ConnectOk(t) ==
    /\ task[t].pc = "connect"
    /\ Register(task[t].cur, task[t].client)
    /\ task' = [task EXCEPT ![t] =
          IF task[t].op = "createSession"
          THEN Finish([task[t] EXCEPT !.io = Settle(task[t].io, "ok")], Ok(task[t].client))
          ELSE [task[t] EXCEPT !.pc = "loop", !.client = 0, !.cur = "",
                               !.io = Settle(task[t].io, "ok")]]
    /\ UNCHANGED <<config, toolServerMap, maxToolTimeout, ctorTimeout, catalog, recordCalls>>

\* ConnectFail with the error swallowed inside createAllSessions' loop
ConnectFailContinues(t) ==
    /\ task[t].pc = "connect"
    /\ task' = [task EXCEPT ![t] =
          IF task[t].op = "createSession"
          THEN Finish([task[t] EXCEPT !.io = Settle(task[t].io, "error")], Err("ConnectError"))
          ELSE [task[t] EXCEPT !.pc = "loop", !.client = 0, !.cur = "",
                               !.io = Settle(task[t].io, "error")]]
    /\ UNCHANGED <<config, sessions, activeSessions, toolServerMap, maxToolTimeout,
                   ctorTimeout, catalog, recordCalls>>

\* client.connect rejected: the error propagates, nothing is registered.
ConnectFail(t) ==
    /\ task[t].pc = "connect"
    /\ task' = [task EXCEPT ![t] =
          Finish([task[t] EXCEPT !.io = Settle(task[t].io, "error")], Err("ConnectError"))]
    /\ UNCHANGED <<config, sessions, activeSessions, toolServerMap, maxToolTimeout,
                   ctorTimeout, catalog, recordCalls>>

----------------------------------------------------------------------------
(* createAllSessions and the rebuild of the tool index *)

\* createAllSessions without the check for an empty configuration
createAllSessionsNoCheck(t) ==
    /\ task[t].pc = "idle"
    /\ CanCreate
    /\ task' = [task EXCEPT ![t] =
          IF getServerNames = <<>>
          THEN [Begin("createAllSessions", "") EXCEPT !.pc = "loop"]
          ELSE LET keys == Keys(config.servers)
               IN StartCreate([Begin("createAllSessions", "") EXCEPT !.names = Tail(keys)],
                              Head(keys))]
    /\ UNCHANGED <<config, sessions, activeSessions, toolServerMap, maxToolTimeout,
                   ctorTimeout, catalog, recordCalls>>

createAllSessions(t) ==
    /\ task[t].pc = "idle"
    /\ CanCreate
    /\ task' = [task EXCEPT ![t] =
          IF ~config.hasServers \/ config.servers = <<>>
          THEN Finish(Begin("createAllSessions", ""), Err("NoServersDefined"))
          ELSE LET keys == Keys(config.servers)
               IN StartCreate([Begin("createAllSessions", "") EXCEPT !.names = Tail(keys)],
                              Head(keys))]
    /\ UNCHANGED <<config, sessions, activeSessions, toolServerMap, maxToolTimeout,
                   ctorTimeout, catalog, recordCalls>>

\* getToolServerMap: the Map iterator over this.sessions advances; either the
\* next entry's session.listTools() is awaited or the iteration is over and
\* the map is returned to createAllSessions, which awaits it.
ScanNext(tk, acc) ==
    IF tk.pos < Len(sessions)
    THEN LET e == sessions[tk.pos + 1]
         IN [tk EXCEPT !.pc = "scan", !.pos = tk.pos + 1, !.cur = e.name, !.client = e.sid,
                       !.acc = acc, !.io = Log(tk.io, Io("listTools", e.name, e.sid, ""))]
    ELSE [tk EXCEPT !.pc = "assign", !.cur = "", !.client = 0, !.acc = acc]

\* `await this.createSession(name)` resumes: the next configured name, or,
\* after the last one, getToolServerMap up to its first await.
LoopCreate(t) ==
    /\ task[t].pc = "loop"
    /\ task[t].names # <<>> => CanCreate
    /\ task' = [task EXCEPT ![t] =
          IF task[t].names # <<>>
          THEN StartCreate([task[t] EXCEPT !.names = Tail(task[t].names)], Head(task[t].names))
          ELSE ScanNext([task[t] EXCEPT !.pos = 0], [n \in {} |-> NoServer])]
    /\ UNCHANGED <<config, sessions, activeSessions, toolServerMap, maxToolTimeout,
                   ctorTimeout, catalog, recordCalls>>

RECURSIVE SetTools(_, _, _)
\* for (const tool of tools) toolServerMap.set(tool.name, serverName)
SetTools(m, tools, serverName) ==
    IF tools = <<>> THEN m
    ELSE SetTools([n \in DOMAIN m \cup {Head(tools).name} |->
                      IF n = Head(tools).name THEN serverName ELSE m[n]],
                  Tail(tools), serverName)

\* session.listTools() resolved inside getToolServerMap
ScanOk(t) ==
    /\ task[t].pc = "scan"
    /\ task' = [task EXCEPT ![t] =
          ScanNext([task[t] EXCEPT !.io = Settle(task[t].io, "ok")],
                   SetTools(task[t].acc, catalog[task[t].cur], task[t].cur))]
    /\ UNCHANGED <<config, sessions, activeSessions, toolServerMap, maxToolTimeout,
                   ctorTimeout, catalog, recordCalls>>

\* session.listTools() rejected inside getToolServerMap: createAllSessions throws
ScanFail(t) ==
    /\ task[t].pc = "scan"
    /\ task' = [task EXCEPT ![t] =
          Finish([task[t] EXCEPT !.io = Settle(task[t].io, "error")], Err("RemoteError"))]
    /\ UNCHANGED <<config, sessions, activeSessions, toolServerMap, maxToolTimeout,
                   ctorTimeout, catalog, recordCalls>>

\* this.toolServerMap = <the new map>; return this.sessions
AssignIndex(t) ==
    /\ task[t].pc = "assign"
    /\ toolServerMap' = [n \in ToolNames |->
                            IF n \in DOMAIN task[t].acc THEN task[t].acc[n] ELSE NoServer]
    /\ task' = [task EXCEPT ![t] = Finish(task[t], Ok(<<"this.sessions">>))]
    /\ UNCHANGED <<config, sessions, activeSessions, maxToolTimeout, ctorTimeout, catalog, recordCalls>>

----------------------------------------------------------------------------
(* closeSession and closeAllSessions *)

\* closeSession(serverName) up to `await client.close()`, or to its early return
StartClose(tk, serverName) ==
    IF ~Has(sessions, serverName)
    THEN [tk EXCEPT !.pc = "returned"]
    ELSE [tk EXCEPT !.pc = "close", !.cur = serverName,
                    !.client = Get(sessions, serverName).sid,
                    !.io = Log(tk.io, Io("close", serverName,
                                            Get(sessions, serverName).sid, ""))]

\* closeSession returned: its caller goes on (closeAllSessions one tick later)
AfterClose(tk) ==
    IF tk.op = "closeSession" THEN Finish(tk, Ok(<<>>))
    ELSE [tk EXCEPT !.pc = "closeLoop", !.cur = "", !.client = 0]

\* closeSession ran up to its await (pc "close") or returned at once
AfterCloseOrWait(tk) == IF tk.pc = "returned" THEN AfterClose(tk) ELSE tk

\* closeSession throwing, as getSession does, when there is no session
closeSessionThrowsUnknown(t, serverName) ==
    /\ task[t].pc = "idle"
    /\ task' = [task EXCEPT ![t] =
          IF ~Has(sessions, serverName)
          THEN Finish(Begin("closeSession", serverName), Err("NoSessionExists"))
          ELSE StartClose(Begin("closeSession", serverName), serverName)]
    /\ UNCHANGED <<config, sessions, activeSessions, toolServerMap, maxToolTimeout,
                   ctorTimeout, catalog, recordCalls>>

closeSession(t, serverName) ==
    /\ task[t].pc = "idle"
    /\ task' = [task EXCEPT ![t] =
          AfterCloseOrWait(StartClose(Begin("closeSession", serverName), serverName))]
    /\ UNCHANGED <<config, sessions, activeSessions, toolServerMap, maxToolTimeout,
                   ctorTimeout, catalog, recordCalls>>

\* A Map iterator that has passed the deleted entry stays on its successor.
IteratorAfterDelete(tk, serverName) ==
    IF tk.pc \in {"scan", "assign"} /\ Has(sessions, serverName)
       /\ (CHOOSE i \in 1..Len(sessions) : sessions[i].name = serverName) <= tk.pos
    THEN [tk EXCEPT !.pos = tk.pos - 1]
    ELSE tk

\* CloseSettle with the cleanup after the close call instead of in finally
CloseSettleKeepsOnError(t, res) ==
    /\ task[t].pc = "close"
    /\ sessions' = IF res = "ok" THEN SelectNot(sessions, task[t].cur) ELSE sessions
    /\ activeSessions' = IF res = "ok" THEN RemoveFirst(activeSessions, task[t].cur)
                         ELSE activeSessions
    /\ task' = [u \in Tasks |->
          IF u = t THEN AfterClose([task[t] EXCEPT !.io = Settle(task[t].io, res)])
          ELSE IF res = "ok" THEN IteratorAfterDelete(task[u], task[t].cur) ELSE task[u]]
    /\ UNCHANGED <<config, toolServerMap, maxToolTimeout, ctorTimeout, catalog, recordCalls>>

\* CloseSettle deleting the map entry without the splice of the active list
CloseSettleKeepsListed(t, res) ==
    /\ task[t].pc = "close"
    /\ sessions' = SelectNot(sessions, task[t].cur)
    /\ task' = [u \in Tasks |->
          IF u = t THEN AfterClose([task[t] EXCEPT !.io = Settle(task[t].io, res)])
          ELSE IteratorAfterDelete(task[u], task[t].cur)]
    /\ UNCHANGED <<config, activeSessions, toolServerMap, maxToolTimeout, ctorTimeout,
                   catalog, recordCalls>>

\* The finally block of closeSession, run whether close resolved or rejected
CloseSettle(t, res) ==
    /\ task[t].pc = "close"
    /\ sessions' = SelectNot(sessions, task[t].cur)
    /\ activeSessions' = RemoveFirst(activeSessions, task[t].cur)
    /\ task' = [u \in Tasks |->
          IF u = t THEN AfterClose([task[t] EXCEPT !.io = Settle(task[t].io, res)])
          ELSE IteratorAfterDelete(task[u], task[t].cur)]
    /\ UNCHANGED <<config, toolServerMap, maxToolTimeout, ctorTimeout, catalog, recordCalls>>

\* client.close() resolved
CloseOk(t) == CloseSettle(t, "ok")

\* CloseFail with the error re-thrown after the cleanup
CloseFailRethrows(t) ==
    /\ task[t].pc = "close"
    /\ sessions' = SelectNot(sessions, task[t].cur)
    /\ activeSessions' = RemoveFirst(activeSessions, task[t].cur)
    /\ task' = [u \in Tasks |->
          IF u = t THEN Finish([task[t] EXCEPT !.io = Settle(task[t].io, "error")],
                               Err("CloseError"))
          ELSE IteratorAfterDelete(task[u], task[t].cur)]
    /\ UNCHANGED <<config, toolServerMap, maxToolTimeout, ctorTimeout, catalog, recordCalls>>

\* client.close() rejected: the error is logged, not re-thrown
CloseFail(t) == CloseSettle(t, "error")

closeAllSessions(t) ==
    /\ task[t].pc = "idle"
    /\ task' = [task EXCEPT ![t] =
          LET names == Keys(sessions)
          IN IF names = <<>> THEN Finish(Begin("closeAllSessions", ""), Ok(<<>>))
             ELSE AfterCloseOrWait(StartClose(
                      [Begin("closeAllSessions", "") EXCEPT !.names = Tail(names)],
                      Head(names)))]
    /\ UNCHANGED <<config, sessions, activeSessions, toolServerMap, maxToolTimeout,
                   ctorTimeout, catalog, recordCalls>>

\* `await this.closeSession(name)` resumes: the next name of the snapshot
CloseLoop(t) ==
    /\ task[t].pc = "closeLoop"
    /\ task' = [task EXCEPT ![t] =
          IF task[t].names = <<>> THEN Finish(task[t], Ok(<<>>))
          ELSE AfterCloseOrWait(StartClose([task[t] EXCEPT !.names = Tail(task[t].names)],
                                           Head(task[t].names)))]
    /\ UNCHANGED <<config, sessions, activeSessions, toolServerMap, maxToolTimeout,
                   ctorTimeout, catalog, recordCalls>>

----------------------------------------------------------------------------
(* listTools *)

\* ListNext iterating the sessions map, as getToolServerMap does
ListNextOverSessions(tk) ==
    IF tk.pos < Len(sessions)
    THEN LET e == sessions[tk.pos + 1]
         IN [tk EXCEPT !.pc = "list", !.pos = tk.pos + 1, !.cur = e.name, !.client = e.sid,
                       !.io = Log(tk.io, Io("listTools", e.name, e.sid, ""))]
    ELSE Finish(tk, Ok(tk.acc))

\* the for..of over this.activeSessions advances (array iterator: an index
\* into the live array): the next session's listTools() is awaited, a name
\* without a session throws, the end of the array returns allTools
ListNext(tk) ==
    IF tk.pos < Len(activeSessions)
    THEN LET serverName == activeSessions[tk.pos + 1]
         IN IF ~Has(sessions, serverName) THEN Finish(tk, Err("NoSessionForServer"))
            ELSE [tk EXCEPT !.pc = "list", !.pos = tk.pos + 1, !.cur = serverName,
                            !.client = Get(sessions, serverName).sid,
                            !.io = Log(tk.io, Io("listTools", serverName,
                                                    Get(sessions, serverName).sid, ""))]
    ELSE Finish(tk, Ok(tk.acc))

listTools(t) ==
    /\ task[t].pc = "idle"
    /\ task' = [task EXCEPT ![t] = ListNext(Begin("listTools", ""))]
    /\ UNCHANGED <<config, sessions, activeSessions, toolServerMap, maxToolTimeout,
                   ctorTimeout, catalog, recordCalls>>

\* { name, description: tool.description ?? "", inputSchema }
Listed(tools) ==
    [i \in 1..Len(tools) |->
        [name |-> tools[i].name,
         description |-> IF tools[i].description = Undefined THEN "" ELSE tools[i].description,
         inputSchema |-> tools[i].inputSchema]]

\* session.listTools() resolved inside listTools
ListOk(t) ==
    /\ task[t].pc = "list"
    /\ task' = [task EXCEPT ![t] =
          ListNext([task[t] EXCEPT !.io = Settle(task[t].io, "ok"),
                                   !.acc = task[t].acc \o Listed(catalog[task[t].cur])])]
    /\ UNCHANGED <<config, sessions, activeSessions, toolServerMap, maxToolTimeout,
                   ctorTimeout, catalog, recordCalls>>

\* session.listTools() rejected inside listTools
ListFail(t) ==
    /\ task[t].pc = "list"
    /\ task' = [task EXCEPT ![t] =
          Finish([task[t] EXCEPT !.io = Settle(task[t].io, "error")], Err("RemoteError"))]
    /\ UNCHANGED <<config, sessions, activeSessions, toolServerMap, maxToolTimeout,
                   ctorTimeout, catalog, recordCalls>>

----------------------------------------------------------------------------
(* callTool *)

\* the request callTool sends to the session stored for serverName
Forward(tk, name, serverName) ==
    [tk EXCEPT !.pc = "call", !.cur = serverName,
               !.client = Get(sessions, serverName).sid,
               !.io = <<Io("callTool", serverName, Get(sessions, serverName).sid,
                           [name |-> name, timeout |-> maxToolTimeout])>>]

\* callTool forwarding to the first stored session, whatever the index names
callToolFirstSession(t, name) ==
    /\ task[t].pc = "idle"
    /\ task' = [task EXCEPT ![t] =
          LET tk == Begin("callTool", name)
              serverName == toolServerMap[name]
          IN IF serverName = NoServer THEN Finish(tk, Err("NoServerForTool"))
             ELSE IF ~Has(sessions, serverName) THEN Finish(tk, Err("NoSessionForServer"))
             ELSE Forward(tk, name, sessions[1].name)]
    /\ UNCHANGED <<config, sessions, activeSessions, toolServerMap, maxToolTimeout,
                   ctorTimeout, catalog, recordCalls>>

\* callTool falling back to the first stored session for an unindexed tool
callToolFallback(t, name) ==
    /\ task[t].pc = "idle"
    /\ task' = [task EXCEPT ![t] =
          LET tk == Begin("callTool", name)
              serverName == toolServerMap[name]
          IN IF serverName = NoServer
             THEN IF sessions = <<>> THEN Finish(tk, Err("NoServerForTool"))
                  ELSE Forward(tk, name, sessions[1].name)
             ELSE IF ~Has(sessions, serverName) THEN Finish(tk, Err("NoSessionForServer"))
             ELSE Forward(tk, name, serverName)]
    /\ UNCHANGED <<config, sessions, activeSessions, toolServerMap, maxToolTimeout,
                   ctorTimeout, catalog, recordCalls>>

\* callTool re-creating the session of an indexed server that has none
callToolRecreates(t, name) ==
    /\ task[t].pc = "idle"
    /\ CanCreate
    /\ LET tk == Begin("callTool", name)
           serverName == toolServerMap[name]
       IN IF serverName = NoServer
          THEN /\ task' = [task EXCEPT ![t] = Finish(tk, Err("NoServerForTool"))]
               /\ UNCHANGED <<sessions, activeSessions>>
          ELSE IF ~Has(sessions, serverName)
          THEN /\ Register(serverName, NewClient)
               /\ task' = [task EXCEPT ![t] =
                     [tk EXCEPT !.pc = "call", !.cur = serverName, !.client = NewClient,
                                !.io = <<Io("callTool", serverName, NewClient,
                                            [name |-> name, timeout |-> maxToolTimeout])>>]]
          ELSE /\ task' = [task EXCEPT ![t] = Forward(tk, name, serverName)]
               /\ UNCHANGED <<sessions, activeSessions>>
    /\ UNCHANGED <<config, toolServerMap, maxToolTimeout, ctorTimeout, catalog, recordCalls>>

\* callTool up to `await session.callTool(..., { timeout: this.maxToolTimeout })`
callTool(t, name) ==
    /\ task[t].pc = "idle"
    /\ task' = [task EXCEPT ![t] =
          LET tk == Begin("callTool", name)
              serverName == toolServerMap[name]
          IN IF serverName = NoServer THEN Finish(tk, Err("NoServerForTool"))
             ELSE IF ~Has(sessions, serverName) THEN Finish(tk, Err("NoSessionForServer"))
             ELSE Forward(tk, name, serverName)]
    /\ UNCHANGED <<config, sessions, activeSessions, toolServerMap, maxToolTimeout,
                   ctorTimeout, catalog, recordCalls>>

\* The SDK's bounded wait: a response later than the timeout is not delivered.
TimedOut(latency, timeout) == latency > timeout

\* the response arrived within the wait bound: callTool returns it unmodified
CallResult(t, latency) ==
    /\ task[t].pc = "call"
    /\ ~TimedOut(latency, task[t].io[1].extra.timeout)
    /\ task' = [task EXCEPT ![t] =
          Finish([task[t] EXCEPT !.io = SettleAfter(task[t].io, "result", latency)],
                 Ok(<<"content", task[t].arg, task[t].cur>>))]
    /\ UNCHANGED <<config, sessions, activeSessions, toolServerMap, maxToolTimeout,
                   ctorTimeout, catalog, recordCalls>>

\* no response within the wait bound: the SDK rejects, callTool re-throws
CallTimeout(t, latency) ==
    /\ task[t].pc = "call"
    /\ TimedOut(latency, task[t].io[1].extra.timeout)
    /\ task' = [task EXCEPT ![t] =
          Finish([task[t] EXCEPT !.io = SettleAfter(task[t].io, "timeout", latency)],
                 Err("Timeout"))]
    /\ UNCHANGED <<config, sessions, activeSessions, toolServerMap, maxToolTimeout,
                   ctorTimeout, catalog, recordCalls>>

\* the server answered with a protocol error within the wait bound
CallError(t, latency) ==
    /\ task[t].pc = "call"
    /\ ~TimedOut(latency, task[t].io[1].extra.timeout)
    /\ task' = [task EXCEPT ![t] =
          Finish([task[t] EXCEPT !.io = SettleAfter(task[t].io, "error", latency)],
                 Err("RemoteError"))]
    /\ UNCHANGED <<config, sessions, activeSessions, toolServerMap, maxToolTimeout,
                   ctorTimeout, catalog, recordCalls>>

----------------------------------------------------------------------------
(* Specifications *)

Steps(T) ==
    \/ \E t \in T, n \in Names, d \in Descriptors : addServer(t, n, d)
    \/ \E t \in T, n \in Names : removeServer(t, n)
    \/ \E t \in T, n \in Names : createSession(t, n)
    \/ \E t \in T : ConnectOk(t)
    \/ \E t \in T : ConnectFail(t)
    \/ \E t \in T : createAllSessions(t)
    \/ \E t \in T : LoopCreate(t)
    \/ \E t \in T : ScanOk(t)
    \/ \E t \in T : ScanFail(t)
    \/ \E t \in T : AssignIndex(t)
    \/ \E t \in T, n \in Names : closeSession(t, n)
    \/ \E t \in T : CloseOk(t)
    \/ \E t \in T : CloseFail(t)
    \/ \E t \in T : closeAllSessions(t)
    \/ \E t \in T : CloseLoop(t)
    \/ \E t \in T : listTools(t)
    \/ \E t \in T : ListOk(t)
    \/ \E t \in T : ListFail(t)
    \/ \E t \in T, n \in ToolNames : callTool(t, n)
    \/ \E t \in T, l \in Latencies : CallResult(t, l)
    \/ \E t \in T, l \in Latencies : CallTimeout(t, l)
    \/ \E t \in T, l \in Latencies : CallError(t, l)

\* One caller, each call awaited before the next: non-overlapping operations.
Init == InitWith({NoTimeoutArg})
Next == Steps(SeqTasks)
Spec == Init /\ [][Next]_vars

\* The same, over the constructor's timeout arguments.
InitTimeout == InitWith(TimeoutArgs)
SpecTimeout == InitTimeout /\ [][Next]_vars

\* Two callers whose calls overlap at the awaits.  Only the registry and the
\* calls in progress are observed: a finished call leaves nothing in task.
\* t1 runs every registry operation; t2 removes servers and creates and closes
\* single sessions while t1 is suspended.  The servers share the tool x.
InitOverlap ==
    /\ config = NoConfig
    /\ sessions = <<>>
    /\ activeSessions = <<>>
    /\ toolServerMap = [n \in ToolNames |-> NoServer]
    /\ ctorTimeout = NoTimeoutArg
    /\ maxToolTimeout = CtorTimeout(ctorTimeout)
    /\ catalog \in {c \in Catalogs : \E i \in 1..Len(c.a) : c.a[i].name = "x"}
    /\ task = [t \in Tasks |-> IdleTask]
    /\ recordCalls = FALSE

NextOverlap ==
    \/ \E t \in SeqTasks, n \in Names : addServer(t, n, StdioCfg)
    \/ \E t \in Tasks, n \in Names : removeServer(t, n)
    \/ \E t \in Tasks, n \in Names : createSession(t, n)
    \/ \E t \in Tasks : ConnectOk(t)
    \/ \E t \in Tasks : ConnectFail(t)
    \/ \E t \in SeqTasks : createAllSessions(t)
    \/ \E t \in SeqTasks : LoopCreate(t)
    \/ \E t \in SeqTasks : ScanOk(t)
    \/ \E t \in SeqTasks : ScanFail(t)
    \/ \E t \in SeqTasks : AssignIndex(t)
    \/ \E t \in Tasks, n \in Names : closeSession(t, n)
    \/ \E t \in Tasks : CloseOk(t)
    \/ \E t \in Tasks : CloseFail(t)
    \/ \E t \in SeqTasks : closeAllSessions(t)
    \/ \E t \in SeqTasks : CloseLoop(t)

SpecOverlap == InitOverlap /\ [][NextOverlap]_vars

\* One configured server a, over every descriptor; sessions are created and
\* closed for it, the configuration is not changed.
InitTransport ==
    /\ \E d \in MCPServerConfig :
          config = [hasServers |-> TRUE, servers |-> <<[name |-> "a", cfg |-> d]>>]
    /\ sessions = <<>>
    /\ activeSessions = <<>>
    /\ toolServerMap = [n \in ToolNames |-> NoServer]
    /\ ctorTimeout = NoTimeoutArg
    /\ maxToolTimeout = CtorTimeout(ctorTimeout)
    /\ catalog \in Catalogs
    /\ task = [t \in Tasks |-> IdleTask]
    /\ recordCalls = TRUE

NextTransport ==
    \/ \E t \in SeqTasks, n \in Names : createSession(t, n)
    \/ \E t \in SeqTasks : ConnectOk(t)
    \/ \E t \in SeqTasks : ConnectFail(t)
    \/ \E t \in SeqTasks, n \in Names : closeSession(t, n)
    \/ \E t \in SeqTasks : CloseOk(t)
    \/ \E t \in SeqTasks : CloseFail(t)

SpecTransport == InitTransport /\ [][NextTransport]_vars

TypeOK ==
    /\ config.hasServers \in BOOLEAN
    /\ \A i \in 1..Len(config.servers) :
          config.servers[i].name \in Names /\ config.servers[i].cfg \in MCPServerConfig
    /\ \A i \in 1..Len(sessions) : sessions[i].name \in Names /\ sessions[i].sid \in SessionIds
    /\ \A i \in 1..Len(activeSessions) : activeSessions[i] \in Names
    /\ \A n \in ToolNames : toolServerMap[n] \in Names \cup {NoServer}

----------------------------------------------------------------------------
(* Vocabulary of the properties *)

\* The call op of caller t has returned or thrown.
Done(t, op) == task[t].pc = "idle" /\ task[t].op = op

\* The errors the design calls NotFoundError.
NotFoundError == {"NoServersDefined", "ServerNotFound", "NoSessionExists",
                  "NoServerForTool", "NoSessionForServer"}

ToolNamesOf(tools) == {tools[i].name : i \in 1..Len(tools)}

\* The servers with a session whose catalog contains the tool n.
Owners(n) == {s \in Range(Keys(sessions)) : n \in ToolNamesOf(catalog[s])}

\* The catalogs of the servers that have a session are pairwise disjoint.
DisjointCatalogs ==
    \A x, y \in Range(Keys(sessions)) :
        x # y => ToolNamesOf(catalog[x]) \cap ToolNamesOf(catalog[y]) = {}

\* The tool names a listTools() call made in this state returns.
ListedNames == UNION {ToolNamesOf(catalog[s]) : s \in Range(activeSessions)}

\* The requests of the given kind in a log.
Calls(io, call) == SelectSeq(io, LAMBDA e : e.call = call)

----------------------------------------------------------------------------
(* C1 *)

\* C1: whenever createAllSessions() has returned successfully (calls not
\* overlapping), getAllActiveSessions() has exactly the configured server
\* names as keys, each once, and maps each to the session the registry stores.
C1_AllSessionsActive ==
    \A t \in Tasks :
        (Done(t, "createAllSessions") /\ task[t].ret.ok) =>
            /\ Range(Keys(getAllActiveSessions)) = Range(getServerNames)
            /\ Len(getAllActiveSessions) = Len(getServerNames)
            /\ \A i \in 1..Len(getAllActiveSessions) :
                  getAllActiveSessions[i] \in Range(sessions)

\* createAllSessions succeeded for two servers, one of which was already
\* active, so that the active list is not in configuration order.
C1_Witness ==
    \E t \in Tasks :
        /\ Done(t, "createAllSessions") /\ task[t].ret.ok
        /\ Len(getServerNames) = 2
        /\ Keys(getAllActiveSessions) # getServerNames

----------------------------------------------------------------------------
(* C2 *)

\* The dispatch of a callTool for tool n went to the session of n's owner.
ForwardedToOwner(tk) ==
    /\ tk.io # <<>>
    /\ tk.io[1].call = "callTool"
    /\ Owners(tk.arg) = {tk.io[1].server}
    /\ Has(sessions, tk.io[1].server)
    /\ tk.io[1].sid = Get(sessions, tk.io[1].server).sid

\* C2 as claimed: once a and b both have (active) sessions and their catalogs
\* are disjoint, however the sessions were created, a callTool for a tool
\* listTools() returns is forwarded to the owner's session and does not fail
\* at dispatch.
C2_RoutedAfterAnyCreation ==
    \A t \in Tasks :
        (/\ task[t].op = "callTool" /\ task[t].pc \in {"idle", "call"}
         /\ Range(activeSessions) = Names /\ DisjointCatalogs
         /\ task[t].arg \in ListedNames)
        => ForwardedToOwner(task[t])

\* C2 amended: a listTools() that returns lists the tools of every active
\* server; and a callTool made right after createAllSessions() returned
\* successfully, for a tool listTools() returns, with disjoint catalogs, is
\* forwarded to the session of the server whose catalog contains the tool.
C2_RoutedAfterCreateAll ==
    /\ [](\A t \in Tasks :
            (Done(t, "listTools") /\ task[t].ret.ok) =>
                ToolNamesOf(task[t].ret.val) = ListedNames)
    /\ [][\A t \in Tasks, n \in ToolNames :
            (/\ Done(t, "createAllSessions") /\ task[t].ret.ok
             /\ DisjointCatalogs /\ n \in ListedNames
             /\ callTool(t, n))
            => (task'[t].pc = "call" /\ ForwardedToOwner(task'[t]))]_vars

\* read_file is being forwarded to b while a and b are both active with
\* disjoint catalogs and the index also routes fetch to a.
C2_Witness ==
    \E t \in Tasks :
        /\ task[t].op = "callTool" /\ task[t].pc = "call"
        /\ task[t].arg = "read_file" /\ task[t].io[1].server = "b"
        /\ Range(activeSessions) = Names /\ DisjointCatalogs
        /\ toolServerMap["fetch"] = "a"
        /\ {"fetch", "read_file"} \subseteq ListedNames

----------------------------------------------------------------------------
(* C3 *)

\* C3: a callTool for a name the tool index has no entry for throws the
\* no-server-for-tool (not found) error, makes no request to any session and
\* leaves the sessions map, the active list and the index as they were.
C3_UnknownToolFails ==
    [][\A t \in Tasks, n \in ToolNames :
          (callTool(t, n) /\ toolServerMap[n] = NoServer) =>
              /\ task'[t].pc = "idle"
              /\ ~task'[t].ret.ok
              /\ task'[t].ret.err = "NoServerForTool"
              /\ task'[t].ret.err \in NotFoundError
              /\ task'[t].io = <<>>
              /\ UNCHANGED <<sessions, activeSessions, toolServerMap>>]_vars

\* an unindexed tool was refused although sessions and index entries exist
C3_Witness ==
    \E t \in Tasks :
        /\ Done(t, "callTool") /\ task[t].ret.err = "NoServerForTool"
        /\ toolServerMap[task[t].arg] = NoServer
        /\ sessions # <<>>
        /\ \E n \in ToolNames : toolServerMap[n] # NoServer

----------------------------------------------------------------------------
(* C4 *)

\* C4: a callTool for a tool whose indexed server has no session any more
\* throws the no-session (not found) error; it starts no connection, makes no
\* request to any session and leaves the registry as it was.
C4_ClosedSessionFails ==
    [][\A t \in Tasks, n \in ToolNames :
          (/\ callTool(t, n)
           /\ toolServerMap[n] # NoServer
           /\ ~Has(sessions, toolServerMap[n])) =>
              /\ task'[t].pc = "idle"
              /\ task'[t].ret.err = "NoSessionForServer"
              /\ task'[t].ret.err \in NotFoundError
              /\ task'[t].io = <<>>
              /\ UNCHANGED <<sessions, activeSessions, toolServerMap>>]_vars

\* the indexed server's session was closed while another session is open
C4_Witness ==
    \E t \in Tasks :
        /\ Done(t, "callTool") /\ task[t].ret.err = "NoSessionForServer"
        /\ toolServerMap[task[t].arg] # NoServer
        /\ ~Has(sessions, toolServerMap[task[t].arg])
        /\ sessions # <<>>

----------------------------------------------------------------------------
(* C5 *)

\* C5: when closeAllSessions() has returned (calls not overlapping), the
\* sessions map and the active list are empty, whichever closes failed.
C5_CloseAllEmpties ==
    \A t \in Tasks :
        Done(t, "closeAllSessions") => (sessions = <<>> /\ activeSessions = <<>>)

\* closeAllSessions closed two sessions, one close failing and one succeeding
C5_Witness ==
    \E t \in Tasks :
        /\ Done(t, "closeAllSessions")
        /\ Len(task[t].io) = 2
        /\ \E i, j \in 1..2 : task[t].io[i].res = "error" /\ task[t].io[j].res = "ok"

----------------------------------------------------------------------------
(* C6 *)

\* C6: closeSession(name) never throws, and when it has returned name is in
\* neither the sessions map nor the active list, whether close resolved or
\* rejected; closeAllSessions() never throws either.
C6_CloseNeverThrows ==
    \A t \in Tasks :
        /\ Done(t, "closeSession") =>
              /\ task[t].ret.ok
              /\ ~Has(sessions, task[t].arg)
              /\ task[t].arg \notin Range(activeSessions)
        /\ Done(t, "closeAllSessions") => task[t].ret.ok

\* a closeSession whose close call was rejected has returned
C6_Witness ==
    \E t \in Tasks :
        /\ Done(t, "closeSession")
        /\ Len(task[t].io) = 1 /\ task[t].io[1].res = "error"
        /\ sessions # <<>>

----------------------------------------------------------------------------
(* C7 *)

\* C7: closeSession(name) for a name without a session returns normally,
\* calls close on nothing and changes neither the sessions map, the active
\* list, the configuration nor the tool index.
C7_CloseUnknownNoOp ==
    [][\A t \in Tasks, n \in Names :
          (closeSession(t, n) /\ ~Has(sessions, n)) =>
              /\ task'[t].pc = "idle"
              /\ task'[t].ret.ok
              /\ task'[t].io = <<>>
              /\ UNCHANGED <<sessions, activeSessions, config, toolServerMap>>]_vars

\* closeSession returned without closing anything for a configured name
\* while another server had a session
C7_Witness ==
    \E t \in Tasks :
        /\ Done(t, "closeSession") /\ task[t].io = <<>>
        /\ ~Has(sessions, task[t].arg)
        /\ Has(config.servers, task[t].arg)
        /\ sessions # <<>>

----------------------------------------------------------------------------
(* C8 *)

\* C8: createAllSessions() with no server configured (mcpServers absent or
\* empty) throws the no-servers (not found) error, attempts no connection and
\* leaves the sessions map, the active list and the tool index unchanged.
C8_CreateAllEmptyConfig ==
    [][\A t \in Tasks :
          (createAllSessions(t) /\ getServerNames = <<>>) =>
              /\ task'[t].pc = "idle"
              /\ task'[t].ret.err = "NoServersDefined"
              /\ task'[t].ret.err \in NotFoundError
              /\ task'[t].io = <<>>
              /\ UNCHANGED <<sessions, activeSessions, toolServerMap>>]_vars

\* createAllSessions refused an emptied configuration while a session of a
\* removed server and index entries were still there
C8_Witness ==
    \E t \in Tasks :
        /\ Done(t, "createAllSessions") /\ task[t].ret.err = "NoServersDefined"
        /\ config.hasServers /\ config.servers = <<>>
        /\ sessions # <<>>
        /\ \E n \in ToolNames : toolServerMap[n] # NoServer

----------------------------------------------------------------------------
(* C9 *)

\* The names a log's connect requests went to, in order.
ConnectNames(io) == [i \in 1..Len(Calls(io, "connect")) |-> Calls(io, "connect")[i].server]

\* The errors with which the creation of one session fails.
CreationErrors == {"ConnectError", "CannotDetermineTransport", "InvalidURL"}

\* C9: createAllSessions() (calls not overlapping) connects to the configured
\* servers in configuration order, one at a time; when the creation for a
\* server fails the call throws that error, no later server is tried, the
\* sessions created before stay in the sessions map and the active list with
\* no close called on them, and the tool index changes only when the call
\* returns successfully.
C9_CreateAllAbortsOnFailure ==
    /\ [](\A t \in Tasks :
            task[t].op = "createAllSessions" =>
                LET io == task[t].io
                    conn == Calls(io, "connect")
                    k == Len(conn)
                IN /\ k <= Len(getServerNames)
                   /\ ConnectNames(io) = SubSeq(getServerNames, 1, k)
                   /\ \A i \in 1..(k - 1) : conn[i].res = "ok"
                   /\ Calls(io, "close") = <<>>
                   /\ (task[t].pc = "idle" /\ task[t].ret.err \in CreationErrors) =>
                         /\ io = conn
                         /\ task[t].ret.err = "ConnectError" <=> (k > 0 /\ conn[k].res = "error")
                         /\ \A i \in 1..k :
                               conn[i].res = "ok" =>
                                  /\ [name |-> conn[i].server, sid |-> conn[i].sid]
                                        \in Range(sessions)
                                  /\ conn[i].server \in Range(activeSessions))
    /\ [][\A t \in Tasks :
            (task'[t].op = "createAllSessions" /\ toolServerMap' # toolServerMap) =>
                (task'[t].pc = "idle" /\ task'[t].ret.ok)]_vars

\* createAllSessions connected the first server, failed to connect the second
\* and threw, with the index of an earlier rebuild still in place
C9_Witness ==
    \E t \in Tasks :
        /\ Done(t, "createAllSessions") /\ task[t].ret.err = "ConnectError"
        /\ Len(task[t].io) = 2
        /\ task[t].io[1].res = "ok" /\ task[t].io[2].res = "error"
        /\ Has(sessions, task[t].io[1].server)
        /\ ~Has(sessions, task[t].io[2].server)
        /\ \E n \in ToolNames : toolServerMap[n] # NoServer

----------------------------------------------------------------------------
(* C10 *)

\* The wait bound the constructor's caller configured (10000 ms by default).
ConfiguredTimeout == IF ctorTimeout = NoTimeoutArg THEN DefaultToolTimeout ELSE ctorTimeout

\* C10: a forwarded callTool carries the timeout configured at construction
\* (10000 ms when none was); a response later than that bound ends in the
\* timeout error, never in a result, and a protocol failure in an error.
C10_CallBoundedByConfiguredTimeout ==
    \A t \in Tasks :
        (task[t].op = "callTool" /\ task[t].io # <<>>) =>
            /\ task[t].io[1].extra.timeout = ConfiguredTimeout
            /\ (task[t].pc = "idle" /\ task[t].io[1].ms > ConfiguredTimeout) =>
                  (~task[t].ret.ok /\ task[t].ret.err = "Timeout")
            /\ (task[t].pc = "idle" /\ task[t].io[1].res = "error") =>
                  (~task[t].ret.ok /\ task[t].ret.err = "RemoteError")

----------------------------------------------------------------------------
(* C11 *)

\* arr without every occurrence of n, order kept
Without(arr, n) == SelectSeq(arr, LAMBDA x : x # n)

\* C11: removeServer(name) takes name out of the configuration and out of
\* the active list and changes nothing else: the other configured names and
\* active names keep their order, the sessions map and the tool index are
\* unchanged, no request goes to any session and getSession(name) returns
\* what it returned before; a closeSession(name) for a removed server that
\* still has a session calls close on that session; addServer changes only
\* the configuration.
C11_RemoveServerFrame ==
    [][/\ \A t \in Tasks, n \in Names :
            (task'[t].op = "removeServer" /\ task'[t].arg = n /\ removeServer(t, n)) =>
                /\ n \notin Range(getServerNames')
                /\ getServerNames' = Without(getServerNames, n)
                /\ n \notin Range(activeSessions')
                /\ activeSessions' = Without(activeSessions, n)
                /\ UNCHANGED <<sessions, toolServerMap>>
                /\ getSession(n)' = getSession(n)
                /\ task'[t].pc = "idle" /\ task'[t].ret.ok /\ task'[t].io = <<>>
       /\ \A t \in Tasks, n \in Names :
            (/\ Has(sessions, n) /\ ~Has(config.servers, n)
             /\ task'[t].op = "closeSession" /\ closeSession(t, n)) =>
                /\ task'[t].pc = "close"
                /\ Calls(task'[t].io, "close") = task'[t].io
                /\ Len(task'[t].io) = 1
                /\ task'[t].io[1].sid = Get(sessions, n).sid
       /\ \A t \in Tasks, n \in Names, d \in Descriptors :
            (task'[t].op = "addServer" /\ task'[t].arg = n /\ addServer(t, n, d)) =>
                /\ UNCHANGED <<sessions, activeSessions, toolServerMap>>
                /\ task'[t].io = <<>>]_vars

\* removeServer has returned for a server whose session is still stored,
\* indexed and returned by getSession
C11_Witness ==
    \E t \in Tasks :
        /\ Done(t, "removeServer")
        /\ ~Has(config.servers, task[t].arg)
        /\ task[t].arg \notin Range(activeSessions)
        /\ getSession(task[t].arg).ok
        /\ \E n \in ToolNames : toolServerMap[n] = task[t].arg

----------------------------------------------------------------------------
(* C12 *)

\* The errors the design calls ConfigurationError.
ConfigurationError == {"CannotDetermineTransport"}

\* The transport kinds in the selector's order of precedence.
Rank(kind) == CASE kind = "stdio" -> 1 [] kind = "sse" -> 2
                [] kind = "streamable-http" -> 3 [] kind = "websocket" -> 4

\* The transport a createSession call selected ("none": it selected none).
Selected(tk) == IF tk.io = <<>> THEN "none" ELSE tk.io[1].extra

\* A createSession call for a configured server, past the selector.
PastSelector(tk) ==
    tk.op = "createSession" /\ Has(config.servers, tk.arg) /\ tk.pc \in {"idle", "connect"}

\* C12 as claimed: the shapes are the populated fields alone (command+args;
\* url; ws_url).  A descriptor with a shape populated gets the transport of
\* the first populated shape (stdio, then sse or streamable-http for url,
\* then websocket); one with none fails with ConfigurationError, no session.
\* Stated for the descriptors whose URLs parse.
C12_SelectsByPopulatedFields ==
    \A t \in Tasks :
        PastSelector(task[t]) =>
            LET c == Get(config.servers, task[t].arg).cfg
                k == Selected(task[t])
            IN IF c.url = "malformed" \/ c.ws_url = "malformed" THEN TRUE
               ELSE IF c.command /\ c.args THEN k = "stdio"
               ELSE IF c.url # "absent" THEN k \in {"sse", "streamable-http"}
               ELSE IF c.ws_url # "absent" THEN k = "websocket"
               ELSE /\ k = "none"
                    /\ task[t].ret.err \in ConfigurationError
                    /\ ~Has(sessions, task[t].arg)

\* The kinds whose shape the descriptor populates: url counts only together
\* with the type that names its kind.
Populated(c) ==
    {k \in {"stdio", "sse", "streamable-http", "websocket"} :
        \/ k = "stdio" /\ c.command /\ c.args
        \/ k \in {"sse", "streamable-http"} /\ c.url # "absent" /\ c.type = k
        \/ k = "websocket" /\ c.ws_url # "absent"}

\* The URL string the transport of kind k is built from.
UrlOf(c, k) == IF k = "stdio" THEN "valid" ELSE IF k = "websocket" THEN c.ws_url ELSE c.url

\* C12 amended: a url populates the sse (streamable-http) shape only with
\* type sse (streamable-http).  The selector takes the populated shape of
\* highest precedence stdio > sse > streamable-http > websocket: it returns
\* that transport when its URL parses and throws the URL error when not;
\* with no shape populated it throws the ConfigurationError.  When it throws,
\* createSession makes no request and stores no session.
C12_SelectsTransport ==
    \A t \in Tasks :
        PastSelector(task[t]) =>
            LET c == Get(config.servers, task[t].arg).cfg
                k == Selected(task[t])
                first == {p \in Populated(c) : \A q \in Populated(c) : Rank(p) <= Rank(q)}
            IN /\ Populated(c) = {} =>
                      /\ k = "none"
                      /\ task[t].pc = "idle" /\ task[t].ret.err \in ConfigurationError
                      /\ sessions = <<>> /\ activeSessions = <<>>
               /\ \A p \in first :
                      /\ UrlOf(c, p) = "valid" => k = p
                      /\ UrlOf(c, p) # "valid" =>
                            /\ k = "none"
                            /\ task[t].pc = "idle" /\ task[t].ret.err = "InvalidURL"
                            /\ sessions = <<>> /\ activeSessions = <<>>
               /\ Cardinality(first) <= 1

\* a descriptor with command, args and an sse url is being connected over
\* stdio
C12_Witness ==
    \E t \in Tasks :
        /\ PastSelector(task[t]) /\ task[t].pc = "connect"
        /\ Selected(task[t]) = "stdio"
        /\ Get(config.servers, task[t].arg).cfg.url = "valid"
        /\ Get(config.servers, task[t].arg).cfg.type = "sse"
        /\ Cardinality(Populated(Get(config.servers, task[t].arg).cfg)) > 1

----------------------------------------------------------------------------
(* C13 *)

RECURSIVE Flatten(_)
\* The catalogs of the servers of arr, one after the other.
Flatten(arr) == IF arr = <<>> THEN <<>> ELSE catalog[Head(arr)] \o Flatten(Tail(arr))

\* C13: a listTools() that has returned (calls not overlapping) asked each
\* session of the active list, in the order of the list, for its catalog and
\* returns these catalogs one after the other, each in the order reported,
\* with "" for a description the server left out; it reports no tool of a
\* server outside the active list.
C13_ListToolsLive ==
    \A t \in Tasks :
        (Done(t, "listTools") /\ task[t].ret.ok) =>
            LET io == task[t].io
                val == task[t].ret.val
                all == Flatten(activeSessions)
            IN /\ Len(io) = Len(activeSessions)
               /\ \A i \in 1..Len(io) :
                     /\ io[i].call = "listTools" /\ io[i].res = "ok"
                     /\ io[i].server = activeSessions[i]
                     /\ [name |-> io[i].server, sid |-> io[i].sid] \in Range(sessions)
               /\ Len(val) = Len(all)
               /\ \A i \in 1..Len(val) :
                     /\ val[i].name = all[i].name
                     /\ val[i].inputSchema = all[i].inputSchema
                     /\ val[i].description =
                           (IF all[i].description = Undefined THEN "" ELSE all[i].description)
               /\ \A s \in Names \ Range(activeSessions) :
                     \A n \in ToolNamesOf(catalog[s]) \ ListedNames :
                        n \notin ToolNamesOf(val)

\* listTools returned the tools of b alone, one without description, while a
\* removed server a still has a session and entries in the tool index
C13_Witness ==
    \E t \in Tasks :
        /\ Done(t, "listTools") /\ task[t].ret.ok
        /\ activeSessions = <<"b">>
        /\ Has(sessions, "a")
        /\ toolServerMap["fetch"] = "a"
        /\ "fetch" \notin ToolNamesOf(task[t].ret.val)
        /\ \E i \in 1..Len(task[t].ret.val) : task[t].ret.val[i].description = ""

----------------------------------------------------------------------------
(* C14 *)

\* C14: in every state, the states between the awaits of overlapping calls
\* included, every name in the active list is a key of the sessions map.
C14_ActiveHaveSessions ==
    \A i \in 1..Len(activeSessions) : Has(sessions, activeSessions[i])

\* Both callers are suspended, one in connect and one in close, while the
\* active list is not empty and the map holds a session that is not listed.
C14_Witness ==
    /\ \E t, u \in Tasks : task[t].pc = "connect" /\ task[u].pc = "close"
    /\ activeSessions # <<>>
    /\ \E i \in 1..Len(sessions) : sessions[i].name \notin Range(activeSessions)

----------------------------------------------------------------------------
(* C15 *)

\* C15: when createAllSessions() has returned successfully, the tool index is
\* the scan of the active servers' catalogs: every tool an active server
\* reports is a key, and every key is mapped to an active server whose
\* catalog contains the tool.
C15_IndexOfActiveServers ==
    \A t \in Tasks :
        (Done(t, "createAllSessions") /\ task[t].ret.ok) =>
            \A n \in ToolNames :
                /\ n \in ListedNames => toolServerMap[n] # NoServer
                /\ toolServerMap[n] # NoServer =>
                      /\ toolServerMap[n] \in Range(activeSessions)
                      /\ n \in ToolNamesOf(catalog[toolServerMap[n]])

----------------------------------------------------------------------------
(* C16 *)

\* C16: when createAllSessions() has returned successfully and two active
\* servers report the same tool, the index maps the tool to one server, the
\* one of the two that comes later in the active list.
C16_LaterActiveServerWins ==
    \A t \in Tasks :
        (Done(t, "createAllSessions") /\ task[t].ret.ok) =>
            \A n \in ToolNames :
                LET owners == {s \in Range(activeSessions) : n \in ToolNamesOf(catalog[s])}
                IN Cardinality(owners) = 2 =>
                      /\ toolServerMap[n] \in owners
                      /\ \A s \in owners :
                            IndexOf(activeSessions, s)
                               <= IndexOf(activeSessions, toolServerMap[n])

----------------------------------------------------------------------------
(* C17 *)

\* C17: a callTool is forwarded only to the session of a server that is in
\* the active list when the call is made.
C17_DispatchOnlyToActive ==
    \A t \in Tasks :
        (task[t].op = "callTool" /\ task[t].pc = "call") =>
            task[t].io[1].server \in Range(activeSessions)

----------------------------------------------------------------------------
(* C18 *)

NoDuplicates(arr) == \A i, j \in 1..Len(arr) : arr[i] = arr[j] => i = j

\* C18: no step of overlapping createSession, createAllSessions, closeSession,
\* closeAllSessions and removeServer calls puts a name twice in the active
\* list; and when the connection of a createSession(name) is established
\* while name is active, the stored session becomes the new client, the keys
\* of the map and the active list stay as they are.
C18_NoDuplicateActive ==
    [][ /\ NoDuplicates(activeSessions')
        /\ \A t \in Tasks :
              ( /\ task[t].pc = "connect"
                /\ task[t].op = "createSession"
                /\ task[t].cur \in Range(activeSessions)
                /\ ConnectOk(t) )
              => /\ activeSessions' = activeSessions
                 /\ Keys(sessions') = Keys(sessions)
                 /\ Get(sessions', task[t].cur).sid = task[t].client
                 /\ Get(sessions, task[t].cur).sid # task[t].client ]_vars

\* a and b are active in this order and a's session is younger than b's: a
\* was connected again while the close of its first session is still pending
C18_Witness ==
    /\ activeSessions = <<"a", "b">>
    /\ Has(sessions, "a") /\ Has(sessions, "b")
    /\ Get(sessions, "a").sid > Get(sessions, "b").sid
    /\ \E t \in Tasks : /\ task[t].pc = "close" /\ task[t].cur = "a"
                        /\ task[t].client < Get(sessions, "b").sid

----------------------------------------------------------------------------
(* C19 *)

\* C19: in every state every name in the active list is a configured server
\* name, also when removeServer(name) runs while a createSession(name) or a
\* createAllSessions() waits for its connection.
C19_ActiveAreConfigured ==
    Range(activeSessions) \subseteq Range(getServerNames)

----------------------------------------------------------------------------
(* C20 *)

\* C20: when the close call of closeSession(name) settles, only the session
\* it closed leaves the registry: a session stored under any name by a
\* createSession that completed in the meantime stays in the sessions map,
\* and its name stays in the active list.
C20_RemovesOnlyClosedSession ==
    [][ \A t \in Tasks :
          ( /\ task[t].pc = "close"
            /\ task'[t].pc # "close"
            /\ (CloseOk(t) \/ CloseFail(t)) )
          => \A i \in 1..Len(sessions) :
                sessions[i].sid # task[t].client =>
                   /\ sessions[i] \in Range(sessions')
                   /\ sessions[i].name \in Range(activeSessions)
                         => sessions[i].name \in Range(activeSessions') ]_vars

====
